---- MODULE Spec2Model ----
(***************************************************************************)
(* Model of lisa.artifacts.manifest: a Manifest (configuration + ordered   *)
(* list of artifacts) whose get() downloads and whose store() uploads      *)
(* every artifact through a storage client, one after the other.           *)
(*                                                                         *)
(* The local filesystem (dirs, files) and the bucket (objects) are part of *)
(* the state; the storage client is an environment that either completes a *)
(* call it was given or raises.                                            *)
(***************************************************************************)
EXTENDS Integers, Sequences, FiniteSets, TLC

\* ------------------------------------------------------------- bounds
MaxArtifacts == 2
MaxCalls == 2

\* ---------------------------------------------------------- constants
DefaultMaxConcurrent == 50

NoValue == "<none>"

\* ------------------------------------------------------------ domains
Names == {"n1", "n2"}
\* artifact.path as its '/'-separated segments: "a", "./a", "b"
Paths == {<<"a">>, <<".", "a">>, <<"b">>}
Contents == {"x", "y"}
Artifact == [name : Names, path : Paths]

\* The policy values the tests construct configurations with.
LocalFilesPolicy == {"OVERWRITE", "SKIP"}

SeqsUpTo(S, n) == UNION {[1..k -> S] : k \in 0..n}

NoKwargs == [k \in {} |-> NoValue]

\* Keyword arguments a caller gives ManifestConfiguration(...); a keyword
\* left out is NoKwargs in its set of choices.
KwargsOf(buckets, prefixes, policies, maxes) ==
    {b @@ r @@ p @@ m :
        b \in {[bucket |-> x, local_prefix |-> <<"tmp">>] : x \in buckets},
        r \in prefixes, p \in policies, m \in maxes}

Field(kw, k, default) == IF k \in DOMAIN kw THEN kw[k] ELSE default

VARIABLES
    kwargs,        \* the keyword arguments given to ManifestConfiguration
    config,        \* <<>> before construction, <<ManifestConfiguration>> after
    artifacts,     \* Manifest.artifacts
    dirs,          \* local directories that exist
    files,         \* local files: path -> content
    objects,       \* the bucket: key -> content
    pc,            \* "new", "invalid", "idle", "loop", "transfer"
    op,            \* the batch call running or last run: "none", "get", "store"
    i,             \* enumerate() position of the for loop
    inFlight,      \* positions whose client call has begun and not ended
    calls,         \* client calls issued by the current batch, in order
    result,        \* what the batch call returned
    raised,        \* what the call raised to its caller
    clientRaised,  \* what the storage client raised inside the batch
    ncalls,        \* batch calls made so far
    pre,           \* files and objects when the current batch call began
    prev           \* <<>> or the previous batch call: op, result, files before it

vars == <<kwargs, config, artifacts, dirs, files, objects, pc, op, i, inFlight,
          calls, result, raised, clientRaised, ncalls, pre, prev>>

Cfg == config[1]

\* ------------------------------------------------------ configuration
\* Field constraints of ManifestConfiguration: bucket has min_length=1.
\* Keys that are no declared field (local_policy) are not looked at.
ValidKwargs(kw) == kw.bucket # ""

ManifestConfiguration(kw) ==
    [bucket         |-> kw.bucket,
     remote_prefix  |-> Field(kw, "remote_prefix", ""),
     local_prefix   |-> Field(kw, "local_prefix", <<>>),
     max_concurrent |-> Field(kw, "max_concurrent", DefaultMaxConcurrent)]

\* ------------------------------------------------------ keys and paths
\* f"{self.config.remote_prefix}{artifact.name}"
ArtifactKey(name) == Cfg.remote_prefix \o name

\* Path(self.config.local_prefix) / artifact.path: "." segments are dropped
LocalPath(path) == Cfg.local_prefix \o SelectSeq(path, LAMBDA s : s # ".")

\* local_path.parent and its ancestors
Parents(p) == {SubSeq(p, 1, k) : k \in 1..(Len(p) - 1)}

Put(f, k, v) == [x \in DOMAIN f \cup {k} |-> IF x = k THEN v ELSE f[x]]

ResultOf(o) == IF o = "get" THEN "GetManifestResult" ELSE "StoreManifestResult"

\* --------------------------------------------------------------- Init
LocalFiles == {<<"tmp", "a">>, <<"tmp", "b">>}
Worlds ==
    {[dirs |-> d, files |-> f, objects |-> o] :
        d \in SUBSET {<<"tmp">>},
        f \in UNION {[F -> Contents] : F \in SUBSET LocalFiles},
        o \in UNION {[K -> Contents] : K \in SUBSET {"p/" \o n : n \in Names}}}

InitWith(kws, maxArtifacts) ==
    /\ kwargs \in kws
    /\ config = <<>>
    /\ artifacts \in SeqsUpTo(Artifact, maxArtifacts)
    /\ \E w \in Worlds :
        /\ (DOMAIN w.files # {} => w.dirs # {})
        /\ dirs = w.dirs /\ files = w.files /\ objects = w.objects
        /\ pre = [files |-> w.files, objects |-> w.objects]
    /\ pc = "new"
    /\ op = "none"
    /\ i = 1
    /\ inFlight = {}
    /\ calls = <<>>
    /\ result = NoValue
    /\ raised = NoValue
    /\ clientRaised = NoValue
    /\ ncalls = 0
    /\ prev = <<>>

Init ==
    InitWith(KwargsOf({"", "artifacts"},
                      {[remote_prefix |-> "p/"]},
                      {[local_policy |-> x] : x \in LocalFilesPolicy},
                      {NoKwargs}),
             MaxArtifacts)

\* ------------------------------------------------------- construction
Construct ==
    /\ pc = "new"
    /\ IF ValidKwargs(kwargs)
       THEN /\ config' = <<ManifestConfiguration(kwargs)>>
            /\ pc' = "idle"
            /\ raised' = raised
       ELSE /\ config' = config
            /\ pc' = "invalid"
            /\ raised' = "ValidationError"
    /\ UNCHANGED <<kwargs, artifacts, dirs, files, objects, op, i, inFlight,
                   calls, result, clientRaised, ncalls, pre, prev>>

\* --------------------------------------------------------- batch calls
BeginBatch(o) ==
    /\ pc = "idle"
    /\ ncalls < MaxCalls
    /\ op' = o
    /\ pc' = "loop"
    /\ i' = 1
    /\ inFlight' = {}
    /\ calls' = <<>>
    /\ result' = NoValue
    /\ raised' = NoValue
    /\ clientRaised' = NoValue
    /\ ncalls' = ncalls + 1
    /\ pre' = [files |-> files, objects |-> objects]
    /\ prev' = IF op = "none" THEN <<>>
               ELSE <<[op |-> op, result |-> result, files |-> pre.files]>>
    /\ UNCHANGED <<kwargs, config, artifacts, dirs, files, objects>>

get == BeginBatch("get")

store == BeginBatch("store")

\* ------------------------------------------------- per-artifact calls
DownloadCall(a) ==
    [fn |-> "download_file", Bucket |-> Cfg.bucket,
     Key |-> ArtifactKey(a.name), Filename |-> LocalPath(a.path)]

UploadCall(a) ==
    [fn |-> "upload_file", Bucket |-> Cfg.bucket,
     Key |-> ArtifactKey(a.name), Filename |-> LocalPath(a.path)]

\* get_artifact with an "already there" shortcut that looks at no policy
get_artifact_skipExisting(a) ==
    IF LocalPath(a.path) \in DOMAIN files
    THEN /\ i' = i + 1
         /\ UNCHANGED <<dirs, calls, inFlight, pc>>
    ELSE /\ dirs' = dirs \cup Parents(LocalPath(a.path))
         /\ calls' = Append(calls, DownloadCall(a))
         /\ inFlight' = inFlight \cup {i}
         /\ pc' = "transfer"
         /\ i' = i

\* get_artifact: mkdir(parents=True, exist_ok=True), then client.download_file
get_artifact(a) ==
    /\ dirs' = dirs \cup Parents(LocalPath(a.path))
    /\ calls' = Append(calls, DownloadCall(a))
    /\ inFlight' = inFlight \cup {i}
    /\ pc' = "transfer"
    /\ i' = i

\* store_artifact that leaves an object already in the bucket alone
store_artifact_skipExisting(a) ==
    IF ArtifactKey(a.name) \in DOMAIN objects
    THEN /\ i' = i + 1
         /\ UNCHANGED <<dirs, calls, inFlight, pc>>
    ELSE /\ calls' = Append(calls, UploadCall(a))
         /\ inFlight' = inFlight \cup {i}
         /\ pc' = "transfer"
         /\ UNCHANGED <<dirs, i>>

\* store_artifact that forgets remote_prefix in the key
store_artifact_noPrefix(a) ==
    /\ calls' = Append(calls, [UploadCall(a) EXCEPT !.Key = a.name])
    /\ inFlight' = inFlight \cup {i}
    /\ pc' = "transfer"
    /\ UNCHANGED <<dirs, i>>

\* store_artifact: client.upload_file
store_artifact(a) ==
    /\ calls' = Append(calls, UploadCall(a))
    /\ inFlight' = inFlight \cup {i}
    /\ pc' = "transfer"
    /\ UNCHANGED <<dirs, i>>

\* the loop taking the artifacts last to first
LoopNext_reversed ==
    /\ pc = "loop"
    /\ i <= Len(artifacts)
    /\ IF op = "get"
       THEN get_artifact(artifacts[Len(artifacts) + 1 - i])
       ELSE store_artifact(artifacts[Len(artifacts) + 1 - i])
    /\ UNCHANGED <<kwargs, config, artifacts, files, objects, op, result,
                   raised, clientRaised, ncalls, pre, prev>>

\* for i, a in enumerate(self.artifacts, start=1): the next artifact's call
LoopNext ==
    /\ pc = "loop"
    /\ i <= Len(artifacts)
    /\ IF op = "get"
       THEN get_artifact(artifacts[i])
       ELSE store_artifact(artifacts[i])
    /\ UNCHANGED <<kwargs, config, artifacts, files, objects, op, result,
                   raised, clientRaised, ncalls, pre, prev>>

\* a batch call that refuses an empty manifest
Return_rejectEmpty ==
    /\ pc = "loop"
    /\ i > Len(artifacts)
    /\ IF artifacts = <<>>
       THEN raised' = "ValueError" /\ result' = result
       ELSE result' = ResultOf(op) /\ raised' = raised
    /\ pc' = "idle"
    /\ UNCHANGED <<kwargs, config, artifacts, dirs, files, objects, op, i,
                   inFlight, calls, clientRaised, ncalls, pre, prev>>

\* return GetManifestResult() / return StoreManifestResult()
Return ==
    /\ pc = "loop"
    /\ i > Len(artifacts)
    /\ result' = ResultOf(op)
    /\ pc' = "idle"
    /\ UNCHANGED <<kwargs, config, artifacts, dirs, files, objects, op, i,
                   inFlight, calls, raised, clientRaised, ncalls, pre, prev>>

\* ------------------------------------------------------ storage client
\* an error caught and logged, the loop going on with the next artifact
Raise_swallow(e) ==
    /\ pc' = "loop"
    /\ i' = i + 1
    /\ inFlight' = inFlight \ {i}
    /\ UNCHANGED <<raised, result, files, objects>>

\* an error after which what the batch had transferred is removed again
Raise_cleanup(e) ==
    /\ raised' = e
    /\ pc' = "idle"
    /\ inFlight' = inFlight \ {i}
    /\ files' = IF op = "get"
                THEN [p \in DOMAIN files \ {calls[j].Filename : j \in 1..(i - 1)} |-> files[p]]
                ELSE files
    /\ objects' = IF op = "store"
                  THEN [k \in DOMAIN objects \ {calls[j].Key : j \in 1..(i - 1)} |-> objects[k]]
                  ELSE objects
    /\ UNCHANGED <<result, i>>

\* An exception in get_artifact/store_artifact: neither the loop nor the
\* batch method has a handler, so it leaves the call as it is.
Raise(e) ==
    /\ raised' = e
    /\ pc' = "idle"
    /\ inFlight' = inFlight \ {i}
    /\ UNCHANGED <<result, i, files, objects>>

DownloadErrors(key) ==
    IF key \in DOMAIN objects THEN {"EndpointConnectionError"} ELSE {"ClientError"}

UploadErrors(path) ==
    IF path \in DOMAIN files THEN {"EndpointConnectionError"} ELSE {"FileNotFoundError"}

\* client.download_file completes: the object's bytes replace the file
DownloadOk ==
    /\ pc = "transfer" /\ op = "get"
    /\ calls[i].Key \in DOMAIN objects
    /\ files' = Put(files, calls[i].Filename, objects[calls[i].Key])
    /\ inFlight' = inFlight \ {i}
    /\ i' = i + 1
    /\ pc' = "loop"
    /\ UNCHANGED <<kwargs, config, artifacts, dirs, objects, op, calls, result,
                   raised, clientRaised, ncalls, pre, prev>>

\* client.download_file raises
DownloadFail ==
    /\ pc = "transfer" /\ op = "get"
    /\ \E e \in DownloadErrors(calls[i].Key) :
        /\ clientRaised' = e
        /\ Raise(e)
    /\ UNCHANGED <<kwargs, config, artifacts, dirs, op, calls, ncalls, pre, prev>>

\* client.upload_file completes: the file's bytes replace the object
UploadOk ==
    /\ pc = "transfer" /\ op = "store"
    /\ calls[i].Filename \in DOMAIN files
    /\ objects' = Put(objects, calls[i].Key, files[calls[i].Filename])
    /\ inFlight' = inFlight \ {i}
    /\ i' = i + 1
    /\ pc' = "loop"
    /\ UNCHANGED <<kwargs, config, artifacts, dirs, files, op, calls, result,
                   raised, clientRaised, ncalls, pre, prev>>

\* client.upload_file raises
UploadFail ==
    /\ pc = "transfer" /\ op = "store"
    /\ \E e \in UploadErrors(calls[i].Filename) :
        /\ clientRaised' = e
        /\ Raise(e)
    /\ UNCHANGED <<kwargs, config, artifacts, dirs, op, calls, ncalls, pre, prev>>

Next ==
    \/ Construct
    \/ get
    \/ store
    \/ LoopNext
    \/ Return
    \/ DownloadOk
    \/ DownloadFail
    \/ UploadOk
    \/ UploadFail

Spec == Init /\ [][Next]_vars

\* Every keyword the constructor can be given, against a manifest of at most
\* one artifact.
InitConfig ==
    InitWith(KwargsOf({"", "artifacts"},
                      {NoKwargs, [remote_prefix |-> "p/"]},
                      {NoKwargs} \cup {[local_policy |-> x] : x \in LocalFilesPolicy \cup {"invalid"}},
                      {NoKwargs} \cup {[max_concurrent |-> x] : x \in {0, 1}}),
             1)

SpecConfig == InitConfig /\ [][Next]_vars

\* ======================================================== properties
Idx == 1..Len(artifacts)
KeyOf(j) == ArtifactKey(artifacts[j].name)
FileOf(j) == LocalPath(artifacts[j].path)
Policy == Field(kwargs, "local_policy", "OVERWRITE")
Returned(o) == pc = "idle" /\ op = o /\ result = ResultOf(o)

\* the last position before k whose transfer went to the same file / key as j's
LastToFile(j, k) == CHOOSE m \in j..(k - 1) :
    /\ FileOf(m) = FileOf(j)
    /\ \A n \in (m + 1)..(k - 1) : FileOf(n) # FileOf(j)
LastToKey(j, k) == CHOOSE m \in j..(k - 1) :
    /\ KeyOf(m) = KeyOf(j)
    /\ \A n \in (m + 1)..(k - 1) : KeyOf(n) # KeyOf(j)

\* C1 as stated: with policy OVERWRITE, after a successful get() the local
\* file of every artifact exists and holds what the client returned for that
\* artifact's key.
C1_AsStated ==
    (Returned("get") /\ Policy = "OVERWRITE") =>
        \A j \in Idx :
            /\ FileOf(j) \in DOMAIN files
            /\ KeyOf(j) \in DOMAIN objects
            /\ files[FileOf(j)] = objects[KeyOf(j)]

\* C1 amended: with policy OVERWRITE, after a successful get() the local file
\* of every artifact exists, and it holds what the client returned for that
\* artifact's key unless a later artifact of the list has the same local path
\* (whatever the file held before, and whether or not it existed).
C1_OverwriteLastWriter ==
    (Returned("get") /\ Policy = "OVERWRITE") =>
        \A j \in Idx :
            /\ FileOf(j) \in DOMAIN files
            /\ (\A n \in Idx : n > j => FileOf(n) # FileOf(j))
                 => (/\ KeyOf(j) \in DOMAIN objects
                     /\ files[FileOf(j)] = objects[KeyOf(j)])

C1_Witness ==
    /\ Returned("get") /\ Policy = "OVERWRITE"
    /\ Len(artifacts) = 2
    /\ FileOf(1) # FileOf(2)
    /\ FileOf(1) \in DOMAIN pre.files
    /\ pre.files[FileOf(1)] # files[FileOf(1)]
    /\ FileOf(2) \notin DOMAIN pre.files

\* C2 as stated: with policy SKIP, a local file that exists before get() is
\* unchanged after get() and no download call was issued for it.
C2_SkipKeepsExisting ==
    (Returned("get") /\ Policy = "SKIP") =>
        \A j \in Idx :
            FileOf(j) \in DOMAIN pre.files =>
                /\ files[FileOf(j)] = pre.files[FileOf(j)]
                /\ \A c \in 1..Len(calls) : calls[c].Filename # FileOf(j)

\* C3: when the storage client raises inside get() or store(), the call has
\* ended raising that same error, has returned no result object, and the
\* failing artifact was given exactly one client call.
C3_ErrorPropagates ==
    clientRaised # NoValue =>
        /\ pc = "idle"
        /\ raised = clientRaised
        /\ result = NoValue
        /\ Len(calls) = i

C3_Witness ==
    /\ clientRaised = "EndpointConnectionError"
    /\ raised = "EndpointConnectionError"
    /\ op = "get"
    /\ i = 2

\* C4: a successful store() has issued exactly one upload call per list
\* entry, in list order, to key remote_prefix+name, for every artifact.
C4_StoreUploadsAll ==
    Returned("store") =>
        /\ Len(calls) = Len(artifacts)
        /\ \A j \in Idx : calls[j] = UploadCall(artifacts[j])

C4_Witness ==
    /\ Returned("store")
    /\ Policy = "SKIP"
    /\ Len(artifacts) = 2
    /\ \A j \in Idx : KeyOf(j) \in DOMAIN pre.objects

\* C5: on an empty artifact list get() and store() issue no client call and
\* end by returning their result object.
C5_EmptyManifest ==
    (artifacts = <<>> /\ op # "none") =>
        /\ calls = <<>>
        /\ clientRaised = NoValue
        /\ pc = "idle" => (result = ResultOf(op) /\ raised = NoValue)

C5_Witness ==
    /\ artifacts = <<>>
    /\ Returned("store")
    /\ calls = <<>>
    /\ prev # <<>>
    /\ prev[1].op = "get"
    /\ prev[1].result = "GetManifestResult"

\* C6 as stated: a local_policy that is no member of the policy enum makes
\* the construction fail, so no configuration object exists.
C6_InvalidPolicyRejected ==
    ("local_policy" \in DOMAIN kwargs /\ kwargs.local_policy \notin LocalFilesPolicy) =>
        /\ config = <<>>
        /\ pc \in {"new", "invalid"}

\* C7: when the transfer at position k fails, the batch has issued calls for
\* positions 1..k only, and what positions before k transferred is still in
\* place: each target holds what the last transfer to it wrote, and the side
\* the batch reads from is as it was.
C7_AbortKeepsTransferred ==
    clientRaised # NoValue =>
        /\ Len(calls) = i
        /\ i \in Idx
        /\ \A j \in 1..i :
            calls[j] = IF op = "get" THEN DownloadCall(artifacts[j])
                       ELSE UploadCall(artifacts[j])
        /\ op = "get" =>
            /\ objects = pre.objects
            /\ \A j \in 1..(i - 1) :
                /\ FileOf(j) \in DOMAIN files
                /\ files[FileOf(j)] = pre.objects[KeyOf(LastToFile(j, i))]
        /\ op = "store" =>
            /\ files = pre.files
            /\ \A j \in 1..(i - 1) :
                /\ KeyOf(j) \in DOMAIN objects
                /\ objects[KeyOf(j)] = pre.files[FileOf(LastToKey(j, i))]

C7_Witness ==
    /\ clientRaised # NoValue
    /\ op = "get"
    /\ i = 2
    /\ FileOf(1) # FileOf(2)
    /\ FileOf(1) \notin DOMAIN pre.files
    /\ FileOf(1) \in DOMAIN files

\* C8 as stated: the transfers in flight never number more than
\* config.max_concurrent, whatever value the constructor accepted.
C8_InFlightWithinCap ==
    config # <<>> => Cardinality(inFlight) <= Cfg.max_concurrent

\* C9: transfers are issued in list order, one at a time: the calls issued so
\* far are those of the first positions of the list, and only the last of
\* them can be in flight.
C9_Sequential ==
    /\ Cardinality(inFlight) <= 1
    /\ inFlight = IF pc = "transfer" THEN {Len(calls)} ELSE {}
    /\ op # "none" =>
        /\ Len(calls) <= Len(artifacts)
        /\ \A j \in 1..Len(calls) :
            /\ calls[j].Key = KeyOf(j)
            /\ calls[j].Filename = FileOf(j)

C9_Witness ==
    /\ pc = "transfer"
    /\ inFlight = {2}
    /\ KeyOf(1) # KeyOf(2)
    /\ FileOf(1) # FileOf(2)

\* C10: artifacts with pairwise distinct names and pairwise distinct paths,
\* all local files present: after a successful store() followed by a
\* successful get(), every artifact's local file holds what it held before
\* the store().
RoundTripCase ==
    /\ Returned("get")
    /\ prev # <<>>
    /\ prev[1].op = "store"
    /\ prev[1].result = "StoreManifestResult"
    /\ \A j, n \in Idx :
        j # n => (artifacts[j].name # artifacts[n].name
                  /\ artifacts[j].path # artifacts[n].path)
    /\ \A j \in Idx : FileOf(j) \in DOMAIN prev[1].files

C10_RoundTrip ==
    RoundTripCase =>
        \A j \in Idx :
            /\ FileOf(j) \in DOMAIN files
            /\ files[FileOf(j)] = prev[1].files[FileOf(j)]

C10_Witness ==
    /\ RoundTripCase
    /\ Len(artifacts) = 2
    /\ files[FileOf(1)] # files[FileOf(2)]
    /\ \A j \in Idx :
        /\ KeyOf(j) \in DOMAIN objects
        /\ pre.objects[KeyOf(j)] = files[FileOf(j)]

====
